---- MODULE Spec2Model ----
(***************************************************************************)
(* Chicken-coop door firmware: the Zigbee on/off attribute drives a        *)
(* stepper motor (src/src/main.c, src/chicken-coop-nrf/.../stepper.c).     *)
(*                                                                         *)
(* Three execution contexts exist in the firmware:                         *)
(*   - the main thread (main(): boot, zigbee_enable(), stepper_init(),     *)
(*     then the heartbeat loop);                                           *)
(*   - the ZBOSS thread started by zigbee_enable(), which runs every       *)
(*     stack callback (zcl_device_cb, identify_cb, start_identifying,      *)
(*     toggle_identify_led) one at a time;                                 *)
(*   - the button context, which runs button_changed().                    *)
(* stepper_run() blocks the ZBOSS thread in k_usleep() between pin writes, *)
(* so the other two contexts interleave with its steps.                    *)
(***************************************************************************)
EXTENDS Integers, Sequences, FiniteSets, TLC

VARIABLES
    mainpc,         \* position of main(): "boot", "init_cfg", "init_dir", "init_disable", "loop"
    pin_output,     \* TRUE once the motor pins are configured as outputs
    motor_step,     \* output latch of the step pin
    motor_dir,      \* output latch of the direction pin
    motor_enable,   \* output latch of the enable pin (1 = motor disabled)
    spc,            \* position of stepper_run(): "idle", "enable", "dir", "high", "low", "disable"
    sdir,           \* argument dir of the stepper_run() in progress
    i,              \* loop counter of stepper_run()
    pulses,         \* step pulse cycles completed since the last stepper_run() call
    active,         \* number of stepper_run() invocations in progress
    on_off,         \* dev_ctx.on_off_attr.on_off
    rxq,            \* device callbacks the stack has received and not yet delivered
    cb_param,       \* device_cb_param of the latest zcl_device_cb call, with its status;
                    \* busy and old record the call's circumstances (see DeviceCbArrives)
    buttons,        \* set of buttons currently pressed
    reset_done,     \* what was_factory_reset_done() returns
    joined,         \* ZB_JOINED()
    identify_time,  \* dev_ctx.identify_attr.identify_time
    led,            \* level of IDENTIFY_LED
    blink_status,   \* static blink_status of toggle_identify_led, modulo 2
    cbq,            \* ZBOSS callback queue: application callbacks scheduled and not yet run
    alarms,         \* number of pending toggle_identify_led alarms
    notified,       \* latest identify notification given to identify_cb
    cb_calls,       \* number of identify_cb calls so far, modulo 2
    intent          \* what the latest start_identifying did: "none", "start",
                    \* "invalid", "cancel" or "skipped"

vars == << mainpc, pin_output, motor_step, motor_dir, motor_enable, spc, sdir, i,
           pulses, active, on_off, rxq, cb_param, buttons, reset_done, joined,
           identify_time, led, blink_status, cbq, alarms, notified, cb_calls, intent >>

motorVars == << pin_output, motor_step, motor_dir, motor_enable >>
runVars == << spc, sdir, i, pulses, active >>
bridgeVars == << on_off, rxq, cb_param >>
buttonVars == << buttons, reset_done >>
identifyVars == << joined, identify_time, led, blink_status, cbq, alarms, notified,
                   cb_calls, intent >>

(***************************************************************************)
(* Bounds of the model.                                                    *)
(***************************************************************************)
MaxRx == 1             \* device callbacks that may wait in the stack at once
MaxQueue == 2          \* application callbacks that may wait in the ZBOSS queue
MaxIdentifyTime == 2   \* identify countdown values 0..MaxIdentifyTime
MaxChains == 2         \* toggle chains that may be alive at once

(***************************************************************************)
(* Program constants.                                                      *)
(***************************************************************************)
steps_to_endstop == 100
ZB_ZCL_CLUSTER_ID_ON_OFF == 6
ZB_ZCL_ATTR_ON_OFF_ON_OFF_ID == 0
ZB_ZCL_IDENTIFY_IDENTIFY_TIME_DEFAULT_VALUE == 0
ZB_ZCL_ON_OFF_IS_ON == 1
Uint8Range == 256

(***************************************************************************)
(* Device callbacks the stack may deliver to zcl_device_cb.  Cluster and   *)
(* attribute ids are 16 bit in the callback parameter: 3 is the identify   *)
(* cluster, 1030 (0x0406) a cluster whose low byte is 0x06; 16384 (0x4000) *)
(* and 16385 (0x4001) are attributes whose low bytes are 0x00 and 0x01.    *)
(***************************************************************************)
SetAttrWrites ==
    { [cb_id |-> "SET_ATTR_VALUE", cluster |-> 6,    attr |-> 0,     value |-> 0],
      [cb_id |-> "SET_ATTR_VALUE", cluster |-> 6,    attr |-> 0,     value |-> 1],
      [cb_id |-> "SET_ATTR_VALUE", cluster |-> 6,    attr |-> 16385, value |-> 0],
      [cb_id |-> "SET_ATTR_VALUE", cluster |-> 6,    attr |-> 16384, value |-> 0],
      [cb_id |-> "SET_ATTR_VALUE", cluster |-> 3,    attr |-> 0,     value |-> 1],
      [cb_id |-> "SET_ATTR_VALUE", cluster |-> 1030, attr |-> 0,     value |-> 1] }

DeviceCallbacks ==
    SetAttrWrites \cup { [cb_id |-> "OTHER", cluster |-> 0, attr |-> 0, value |-> 0] }

NoParam ==
    [cb_id |-> "none", cluster |-> 0, attr |-> 0, value |-> 0, busy |-> FALSE,
     old |-> 0, status |-> "none"]

(***************************************************************************)
(* stepper.c                                                               *)
(***************************************************************************)
\* nrf_gpio_pin_set(motor_enable) disables the driver, pin_clear enables it.
MotorDisabled == motor_enable = 1

\* if (dir) pin_set(motor_dir) else pin_clear(motor_dir)
DirLevelInverted(dir) == IF dir THEN 0 ELSE 1
DirLevel(dir) == IF dir THEN 1 ELSE 0

\* for (int i = 0; i < steps_to_endstop; i++)
LoopContinuesShort(k) == k < steps_to_endstop - 1
LoopContinues(k) == k < steps_to_endstop

\* The level stepper_run() leaves on motor_enable when it returns.
ExitEnableLevel == 1

StepperInitCfg ==
    /\ mainpc = "init_cfg"
    /\ mainpc' = "init_dir"
    /\ pin_output' = TRUE
    /\ UNCHANGED << motor_step, motor_dir, motor_enable >>
    /\ UNCHANGED << runVars, bridgeVars, buttonVars, identifyVars >>

StepperInitDir ==
    /\ mainpc = "init_dir"
    /\ mainpc' = "init_disable"
    /\ motor_dir' = 1
    /\ UNCHANGED << pin_output, motor_step, motor_enable >>
    /\ UNCHANGED << runVars, bridgeVars, buttonVars, identifyVars >>

StepperInitDisable ==
    /\ mainpc = "init_disable"
    /\ mainpc' = "loop"
    /\ motor_enable' = 1
    /\ UNCHANGED << pin_output, motor_step, motor_dir >>
    /\ UNCHANGED << runVars, bridgeVars, buttonVars, identifyVars >>

\* nrf_gpio_pin_clear(motor_enable)
RunEnable ==
    /\ spc = "enable"
    /\ motor_enable' = 0
    /\ spc' = "dir"
    /\ UNCHANGED << mainpc, pin_output, motor_step, motor_dir, sdir, i, pulses, active >>
    /\ UNCHANGED << bridgeVars, buttonVars, identifyVars >>

\* the direction statement, then the loop's initialisation and first test
RunDir ==
    /\ spc = "dir"
    /\ motor_dir' = DirLevel(sdir)
    /\ i' = 0
    /\ spc' = IF LoopContinues(0) THEN "high" ELSE "disable"
    /\ UNCHANGED << mainpc, pin_output, motor_step, motor_enable, sdir, pulses, active >>
    /\ UNCHANGED << bridgeVars, buttonVars, identifyVars >>

\* nrf_gpio_pin_set(motor_step); k_usleep(stepper_speed)
RunStepHigh ==
    /\ spc = "high"
    /\ motor_step' = 1
    /\ spc' = "low"
    /\ UNCHANGED << mainpc, pin_output, motor_dir, motor_enable, sdir, i, pulses, active >>
    /\ UNCHANGED << bridgeVars, buttonVars, identifyVars >>

\* nrf_gpio_pin_clear(motor_step); k_usleep(stepper_speed); i++ and the loop test
RunStepLow ==
    /\ spc = "low"
    /\ motor_step' = 0
    /\ pulses' = pulses + 1
    /\ i' = i + 1
    /\ spc' = IF LoopContinues(i + 1) THEN "high" ELSE "disable"
    /\ UNCHANGED << mainpc, pin_output, motor_dir, motor_enable, sdir, active >>
    /\ UNCHANGED << bridgeVars, buttonVars, identifyVars >>

\* nrf_gpio_pin_set(motor_enable), and stepper_run() returns
RunDisable ==
    /\ spc = "disable"
    /\ motor_enable' = ExitEnableLevel
    /\ spc' = "idle"
    /\ active' = active - 1
    /\ UNCHANGED << mainpc, pin_output, motor_step, motor_dir, sdir, i, pulses >>
    /\ UNCHANGED << bridgeVars, buttonVars, identifyVars >>

(***************************************************************************)
(* main.c: the command bridge                                              *)
(***************************************************************************)
\* zigbee_enable() has started the ZBOSS thread.
ZigbeeStarted == mainpc # "boot"

\* The ZBOSS thread takes the next callback only when the previous one has
\* returned; zcl_device_cb returns only when stepper_run() has.
ZigbeeIdleAlways == ZigbeeStarted
ZigbeeIdle == ZigbeeStarted /\ spc = "idle"

\* zb_uint8_t cluster_id / attr_id: the 16 bit ids are stored in 8 bits.
ClusterId(m) == m.cluster % Uint8Range
AttrId(m) == m.attr % Uint8Range

\* Whether zcl_device_cb calls on_off_set_value for this callback.
CallsOnOffSetValueWrongAttr(m) ==
    /\ m.cb_id = "SET_ATTR_VALUE"
    /\ ClusterId(m) = ZB_ZCL_CLUSTER_ID_ON_OFF
    /\ AttrId(m) # ZB_ZCL_ATTR_ON_OFF_ON_OFF_ID
CallsOnOffSetValue(m) ==
    /\ m.cb_id = "SET_ATTR_VALUE"
    /\ ClusterId(m) = ZB_ZCL_CLUSTER_ID_ON_OFF
    /\ AttrId(m) = ZB_ZCL_ATTR_ON_OFF_ON_OFF_ID

\* device_cb_param->status when zcl_device_cb returns; scenes is what
\* zcl_scenes_cb(bufid) returned.
DeviceCbStatusAlwaysOk(m, scenes) == "RET_OK"
DeviceCbStatus(m, scenes) ==
    IF m.cb_id = "SET_ATTR_VALUE"
    THEN IF ClusterId(m) = ZB_ZCL_CLUSTER_ID_ON_OFF
         THEN "RET_OK"
         ELSE "RET_NOT_IMPLEMENTED"
    ELSE IF scenes THEN "RET_OK" ELSE "RET_NOT_IMPLEMENTED"

\* on_off_set_value: if (on) stepper_run(true) else stepper_run(false)
RunDirection(on) == on # 0

\* on_off_set_value runs the stepper for every value it is given.
RunsStepperOnChange(on) == on # on_off
RunsStepper(on) == TRUE

\* The stack receives a device callback; busy records whether an actuation
\* sequence was in progress when it arrived (old, set at delivery, is the
\* on_off value stored when zcl_device_cb was entered).
DeviceCbArrives(m) ==
    /\ ZigbeeStarted
    /\ Len(rxq) < MaxRx
    /\ rxq' = Append(rxq, [cb_id |-> m.cb_id, cluster |-> m.cluster, attr |-> m.attr,
                           value |-> m.value, busy |-> (spc # "idle")])
    /\ UNCHANGED << mainpc, motorVars, runVars, on_off, cb_param, buttonVars, identifyVars >>

\* zcl_device_cb(bufid), up to its call of stepper_run()
ZclDeviceCb(scenes) ==
    /\ ZigbeeIdle
    /\ rxq # << >>
    /\ LET m == Head(rxq) IN
        /\ rxq' = Tail(rxq)
        /\ cb_param' = [cb_id |-> m.cb_id, cluster |-> m.cluster, attr |-> m.attr,
                        value |-> m.value, busy |-> m.busy, old |-> on_off,
                        status |-> DeviceCbStatus(m, scenes)]
        /\ IF CallsOnOffSetValue(m)
           THEN /\ on_off' = m.value
                /\ IF RunsStepper(m.value)
                   THEN /\ spc' = "enable"
                        /\ sdir' = RunDirection(m.value)
                        /\ i' = 0
                        /\ pulses' = 0
                        /\ active' = active + 1
                   ELSE UNCHANGED runVars
           ELSE UNCHANGED << on_off, runVars >>
    /\ UNCHANGED << mainpc, motorVars, buttonVars, identifyVars >>

(***************************************************************************)
(* main.c: buttons                                                         *)
(***************************************************************************)
Buttons == { "DK_BTN1", "DK_BTN4" }
IDENTIFY_MODE_BUTTON == "DK_BTN4"
FACTORY_RESET_BUTTON == IDENTIFY_MODE_BUTTON

\* Whether button_changed(button_state, has_changed) schedules
\* start_identifying; reset is what was_factory_reset_done() returns.
SchedulesOnAnyRelease(button_state, has_changed, reset) ==
    /\ IDENTIFY_MODE_BUTTON \in has_changed
    /\ IDENTIFY_MODE_BUTTON \notin button_state
SchedulesStartIdentifying(button_state, has_changed, reset) ==
    /\ IDENTIFY_MODE_BUTTON \in has_changed
    /\ IDENTIFY_MODE_BUTTON \notin button_state
    /\ ~reset

\* button_changed(button_state, has_changed), with the
\* check_factory_reset_button call that ends it: a press of the factory reset
\* button starts the long-press timer and clears the reset-done flag.
ButtonChanged(has_changed) ==
    LET button_state == (buttons \ has_changed) \cup (has_changed \ buttons)
        schedules == SchedulesStartIdentifying(button_state, has_changed, reset_done)
    IN  /\ has_changed # {}
        /\ schedules => Len(cbq) < MaxQueue
        /\ buttons' = button_state
        /\ cbq' = IF schedules THEN Append(cbq, "start_identifying") ELSE cbq
        /\ reset_done' = IF /\ FACTORY_RESET_BUTTON \in has_changed
                            /\ FACTORY_RESET_BUTTON \in button_state
                         THEN FALSE
                         ELSE reset_done
        /\ UNCHANGED << mainpc, motorVars, runVars, bridgeVars >>
        /\ UNCHANGED << joined, identify_time, led, blink_status, alarms, notified >>
        /\ UNCHANGED << cb_calls, intent >>

\* The factory reset collaborator's long-press timer expires while the
\* button is held: the reset is done and was_factory_reset_done() turns true.
FactoryResetTimeout ==
    /\ FACTORY_RESET_BUTTON \in buttons
    /\ ~reset_done
    /\ reset_done' = TRUE
    /\ UNCHANGED << mainpc, motorVars, runVars, bridgeVars, buttons, identifyVars >>

(***************************************************************************)
(* main.c: identify                                                        *)
(***************************************************************************)
\* Toggle chains alive: toggle_identify_led callbacks scheduled and alarms pending.
PendingToggles(q) == Cardinality({ k \in 1..Len(q) : q[k] = "toggle_identify_led" })
Chains == alarms + PendingToggles(cbq)

\* ZB_SCHEDULE_APP_ALARM_CANCEL(toggle_identify_led, ZB_ALARM_ANY_PARAM)
\* removes one pending alarm of the function; the callback queue is not
\* searched.
AlarmCancel(a) == IF a > 0 THEN a - 1 ELSE 0

\* identify_cb(bufid), called by the stack with q the callback queue as the
\* caller leaves it.
IdentifyCb(bufid, q) ==
    IF bufid # 0
    THEN /\ cbq' = Append(q, "toggle_identify_led")
         /\ notified' = "start"
         /\ cb_calls' = (cb_calls + 1) % 2
         /\ UNCHANGED << alarms, led, blink_status >>
    ELSE /\ cbq' = q
         /\ alarms' = AlarmCancel(alarms)
         /\ led' = 0
         /\ notified' = "cancel"
         /\ cb_calls' = (cb_calls + 1) % 2
         /\ UNCHANGED blink_status

\* toggle_identify_led(bufid): dk_set_led(IDENTIFY_LED, (++blink_status) % 2)
\* and the alarm that calls it again; a is the number of alarms pending when
\* it is entered.
ToggleIdentifyLedOnce(a) ==
    /\ blink_status' = (blink_status + 1) % 2
    /\ led' = (blink_status + 1) % 2
    /\ alarms' = a

ToggleIdentifyLed(a) ==
    /\ blink_status' = (blink_status + 1) % 2
    /\ led' = (blink_status + 1) % 2
    /\ alarms' = a + 1

\* The ZBOSS thread runs the scheduled callback toggle_identify_led.
RunToggleCallback ==
    /\ ZigbeeIdle
    /\ cbq # << >>
    /\ Head(cbq) = "toggle_identify_led"
    /\ cbq' = Tail(cbq)
    /\ ToggleIdentifyLed(alarms)
    /\ UNCHANGED << mainpc, motorVars, runVars, bridgeVars, buttonVars >>
    /\ UNCHANGED << joined, identify_time, notified, cb_calls, intent >>

\* A toggle_identify_led alarm expires and the ZBOSS thread runs it.
ToggleAlarmFires ==
    /\ ZigbeeIdle
    /\ alarms > 0
    /\ ToggleIdentifyLed(alarms - 1)
    /\ UNCHANGED << mainpc, motorVars, runVars, bridgeVars, buttonVars >>
    /\ UNCHANGED << joined, identify_time, cbq, notified, cb_calls, intent >>

\* if (dev_ctx.identify_attr.identify_time ==
\*     ZB_ZCL_IDENTIFY_IDENTIFY_TIME_DEFAULT_VALUE)
IdentifyInactiveInverted == identify_time # ZB_ZCL_IDENTIFY_IDENTIFY_TIME_DEFAULT_VALUE
IdentifyInactive == identify_time = ZB_ZCL_IDENTIFY_IDENTIFY_TIME_DEFAULT_VALUE

\* if (ZB_JOINED())
DeviceJoinedAlways == joined \/ ~joined
DeviceJoined == joined

\* start_identifying(bufid), run from the callback queue.
\* zb_bdb_finding_binding_target() either starts identifying (identify_time
\* is set and the identify notification handler called) or returns
\* RET_INVALID_STATE; zb_bdb_finding_binding_target_cancel() stops it.
StartIdentifying(ret) ==
    /\ ZigbeeIdle
    /\ cbq # << >>
    /\ Head(cbq) = "start_identifying"
    /\ IF DeviceJoined
       THEN IF IdentifyInactive
            THEN IF ret = "RET_OK"
                 THEN /\ Chains < MaxChains
                      /\ identify_time' = MaxIdentifyTime
                      /\ IdentifyCb(1, Tail(cbq))
                      /\ intent' = "start"
                 ELSE /\ cbq' = Tail(cbq)
                      /\ intent' = "invalid"
                      /\ UNCHANGED << identify_time, led, blink_status, alarms, notified,
                                      cb_calls >>
            ELSE /\ ret = "RET_OK"
                 /\ identify_time' = 0
                 /\ IdentifyCb(0, Tail(cbq))
                 /\ intent' = "cancel"
       ELSE /\ ret = "RET_OK"
            /\ cbq' = Tail(cbq)
            /\ intent' = "skipped"
            /\ UNCHANGED << identify_time, led, blink_status, alarms, notified, cb_calls >>
    /\ UNCHANGED << mainpc, motorVars, runVars, bridgeVars, buttonVars, joined >>

\* The stack handles an Identify command from the network: identify_time is
\* set and the notification handler told to start (t > 0) or to stop (t = 0).
IdentifyCommand(t) ==
    /\ ZigbeeIdle
    /\ joined
    /\ t > 0 => (Chains < MaxChains /\ Len(cbq) < MaxQueue)
    /\ identify_time' = t
    /\ IdentifyCb(t, cbq)
    /\ UNCHANGED << mainpc, motorVars, runVars, bridgeVars, buttonVars, joined, intent >>

\* The stack counts identify_time down once a second and tells the handler
\* to stop when it reaches 0.
IdentifyCountdown ==
    /\ ZigbeeIdle
    /\ identify_time > 0
    /\ identify_time' = identify_time - 1
    /\ IF identify_time = 1
       THEN IdentifyCb(0, cbq)
       ELSE UNCHANGED << led, blink_status, cbq, alarms, notified, cb_calls >>
    /\ UNCHANGED << mainpc, motorVars, runVars, bridgeVars, buttonVars, joined, intent >>

\* The device joins or leaves the network.
NetworkJoinLeave ==
    /\ ZigbeeIdle
    /\ joined' = ~joined
    /\ UNCHANGED << mainpc, motorVars, runVars, bridgeVars, buttonVars >>
    /\ UNCHANGED << identify_time, led, blink_status, cbq, alarms, notified >>
    /\ UNCHANGED << cb_calls, intent >>

(***************************************************************************)
(* main.c: main()                                                          *)
(***************************************************************************)
\* main() up to and including zigbee_enable()
MainEnableZigbee ==
    /\ mainpc = "boot"
    /\ mainpc' = "init_cfg"
    /\ UNCHANGED << motorVars, runVars, bridgeVars, buttonVars, identifyVars >>

Init ==
    /\ mainpc = "boot"
    /\ pin_output = FALSE
    /\ motor_step = 0
    /\ motor_dir = 0
    /\ motor_enable = 0
    /\ spc = "idle"
    /\ sdir = FALSE
    /\ i = 0
    /\ pulses = 0
    /\ active = 0
    /\ on_off = ZB_ZCL_ON_OFF_IS_ON
    /\ rxq = << >>
    /\ cb_param = NoParam
    /\ buttons = {}
    /\ reset_done = FALSE
    /\ joined = FALSE
    /\ identify_time = ZB_ZCL_IDENTIFY_IDENTIFY_TIME_DEFAULT_VALUE
    /\ led = 0
    /\ blink_status = 0
    /\ cbq = << >>
    /\ alarms = 0
    /\ notified = "none"
    /\ cb_calls = 0
    /\ intent = "none"

MainThread ==
    \/ MainEnableZigbee
    \/ StepperInitCfg
    \/ StepperInitDir
    \/ StepperInitDisable

StepperRun ==
    \/ RunEnable
    \/ RunDir
    \/ RunStepHigh
    \/ RunStepLow
    \/ RunDisable

Next ==
    \/ MainThread
    \/ StepperRun
    \/ \E m \in DeviceCallbacks : DeviceCbArrives(m)
    \/ \E scenes \in BOOLEAN : ZclDeviceCb(scenes)

\* The actuation side: main(), the command bridge and stepper_run().  The
\* button and identify actions below change none of the variables these
\* actions read or write, and are checked under SpecIdentify.
Spec == Init /\ [][Next]_vars

ButtonContext ==
    \/ \E has_changed \in SUBSET Buttons : ButtonChanged(has_changed)
    \/ FactoryResetTimeout

IdentifyThread ==
    \/ RunToggleCallback
    \/ ToggleAlarmFires
    \/ \E ret \in { "RET_OK", "RET_INVALID_STATE" } : StartIdentifying(ret)
    \/ \E t \in 0..MaxIdentifyTime : IdentifyCommand(t)
    \/ IdentifyCountdown
    \/ NetworkJoinLeave

NextIdentify ==
    \/ MainThread
    \/ ButtonContext
    \/ IdentifyThread

\* The identify side: main(), the buttons, and the callbacks and alarms of
\* the identify mode.  No device callback is delivered, so stepper_run()
\* never occupies the ZBOSS thread.
SpecIdentify == Init /\ [][NextIdentify]_vars

\* The ZBOSS scheduler runs every callback of its queue and every expired
\* alarm.
SpecIdentifyFair ==
    /\ SpecIdentify
    /\ WF_vars(RunToggleCallback)
    /\ WF_vars(ToggleAlarmFires)
    /\ WF_vars(\E ret \in { "RET_OK", "RET_INVALID_STATE" } : StartIdentifying(ret))

(***************************************************************************)
(* Properties of the command bridge and the actuation sequence             *)
(***************************************************************************)
\* A step in which zcl_device_cb takes the next device callback.
Delivered == Len(rxq') = Len(rxq) - 1

\* A write of the on/off attribute of the on/off cluster (16 bit ids).
IsOnOffWrite(m) ==
    m.cb_id = "SET_ATTR_VALUE" /\ m.cluster = 6 /\ m.attr = 0

\* C1: an on/off write whose value equals the stored on_off value starts no
\* actuation sequence.
C1_SameValueNoActuation ==
    [][ (Delivered /\ IsOnOffWrite(Head(rxq)) /\ Head(rxq).value = on_off)
            => (active' = active /\ spc' = spc) ]_vars

\* C2: an on/off write that changes the stored value starts exactly one
\* actuation sequence, whose direction comes from the new value: a non-zero
\* value runs Extend and sets the direction pin, zero runs Retract and clears
\* it; a sequence starts at no other step than a delivery, one at a time.
C2_ChangedWriteRunsOnce ==
    [][ /\ (Delivered /\ IsOnOffWrite(Head(rxq)) /\ Head(rxq).value # on_off)
            => /\ active' = active + 1
               /\ spc' = "enable"
               /\ sdir' = (Head(rxq).value = 1)
               /\ on_off' = Head(rxq).value
        /\ (active' # active /\ active' > active)
            => (Delivered /\ active' = active + 1)
        /\ (spc = "dir" /\ spc' # "dir")
            => /\ sdir => motor_dir' = 1
               /\ ~sdir => motor_dir' = 0
        /\ (spc # "idle" /\ spc' # "idle") => sdir' = sdir ]_vars

C2_Witness ==
    /\ IsOnOffWrite(cb_param)
    /\ cb_param.value = 0
    /\ cb_param.old = 1
    /\ spc = "low"
    /\ pulses = 5
    /\ motor_dir = 0

C4_OtherPairNoEffect ==
    [][ (Delivered /\ Head(rxq).cb_id = "SET_ATTR_VALUE" /\ ~IsOnOffWrite(Head(rxq)))
            => /\ on_off' = on_off
               /\ UNCHANGED << identify_time, led, blink_status, cbq, alarms >>
               /\ UNCHANGED << motor_step, motor_dir, motor_enable >>
               /\ active' = active
               /\ spc' = spc ]_vars

\* C5: every actuation sequence returns only after exactly 100 step pulse
\* cycles (step pin set, then cleared) counted from its call, and its return
\* leaves motor_enable set (motor disabled); the pulse count never exceeds
\* 100.
C5_HundredPulsesThenDisabled ==
    [][ /\ (spc # "idle" /\ spc' = "idle")
            => (pulses' = 100 /\ motor_enable' = 1)
        /\ (active' > active) => pulses' = 0
        /\ pulses' # pulses
            => \/ active' > active
               \/ pulses' = pulses + 1 /\ motor_step = 1 /\ motor_step' = 0
        /\ (spc = "high" /\ spc' = "low") => (motor_step' = 1 /\ pulses' = pulses)
        /\ pulses' <= 100 ]_vars

C5_Witness ==
    /\ spc = "idle"
    /\ pulses = 100
    /\ ~sdir
    /\ MotorDisabled
    /\ IsOnOffWrite(cb_param)
    /\ cb_param.old = 1
    /\ cb_param.value = 0

\* C6: at most one actuation sequence is in progress in every reachable
\* state, and one is in progress exactly while stepper_run is between its
\* call and its return.
C6_AtMostOneActuation ==
    /\ active <= 1
    /\ active = 1 <=> spc # "idle"

C6_Witness ==
    /\ active = 1
    /\ spc = "high"
    /\ rxq # << >>
    /\ IsOnOffWrite(Head(rxq))
    /\ mainpc = "init_dir"

\* C7 as stated: an on/off write that arrived while an actuation sequence was
\* in progress gets an error status and is never run.
C7_BusyWriteRejected ==
    [][ (Delivered /\ Head(rxq).busy /\ IsOnOffWrite(Head(rxq)))
            => (cb_param'.status # "RET_OK" /\ active' = active) ]_vars

\* C7 amended: a write that arrives while an actuation sequence is in
\* progress stays queued until stepper_run has returned (nothing is
\* delivered or dropped meanwhile), and is then handled like any other on/off
\* write: status RET_OK, value stored, one actuation sequence started.
C7_BusyWriteDeferred ==
    [][ /\ spc # "idle"
            => /\ Len(rxq') >= Len(rxq)
               /\ SubSeq(rxq', 1, Len(rxq)) = rxq
        /\ (Delivered /\ Head(rxq).busy /\ IsOnOffWrite(Head(rxq)))
            => /\ cb_param'.status = "RET_OK"
               /\ on_off' = Head(rxq).value
               /\ active' = active + 1
               /\ spc' = "enable" ]_vars

C7_Witness ==
    /\ cb_param.busy
    /\ IsOnOffWrite(cb_param)
    /\ cb_param.status = "RET_OK"
    /\ spc = "low"
    /\ pulses = 3

(***************************************************************************)
(* Properties of the buttons and the identify mode                         *)
(***************************************************************************)
PendingStarts(q) == Cardinality({ k \in 1..Len(q) : q[k] = "start_identifying" })

\* C8: a button event schedules exactly one start_identifying when the
\* identify button changed, is now released and was_factory_reset_done() is
\* false; every other button event (a press, a release after a factory
\* reset, a change of another button only) schedules nothing; nothing else
\* schedules start_identifying.
C8_ReleaseSchedulesToggleIntent ==
    [][ /\ buttons' # buttons
            => LET changed == (buttons \ buttons') \cup (buttons' \ buttons)
               IN  IF "DK_BTN4" \in changed /\ "DK_BTN4" \notin buttons' /\ ~reset_done
                   THEN cbq' = Append(cbq, "start_identifying")
                   ELSE cbq' = cbq
        /\ PendingStarts(cbq') > PendingStarts(cbq) => buttons' # buttons ]_vars

C8_Witness ==
    /\ mainpc = "boot"
    /\ reset_done
    /\ buttons = {}
    /\ cbq = << "start_identifying" >>

\* C9: identify_time > 0 exactly when the identify session is active, that
\* is when a toggle_identify_led callback or alarm is pending.
C9_TimeIffSessionActive ==
    (identify_time > 0) <=> (Chains > 0)

\* C10: once identify_cb(0) has cancelled the session, and until the next
\* start, no toggle_identify_led callback or alarm is pending and the
\* identify output is low.
C10_CancelStopsToggling ==
    notified = "cancel" => (led = 0 /\ Chains = 0)

(***************************************************************************)
(* Further properties of the command bridge and the actuation sequence     *)
(***************************************************************************)
\* C14: when the latest callback handled by zcl_device_cb is an on/off
\* write, the stored on_off attribute equals the value it wrote.
C14_StoredEqualsLastWrite ==
    IsOnOffWrite(cb_param) => on_off = cb_param.value

C14_Witness ==
    /\ IsOnOffWrite(cb_param)
    /\ cb_param.old = 1
    /\ cb_param.value = 0
    /\ on_off = 0
    /\ spc = "idle"
    /\ pulses = 100

\* C16: within an actuation sequence motor_enable is asserted first, then
\* the direction is set, then the pulses are issued, then motor_enable is
\* deasserted; the step pin is pulsed only while the motor is enabled (enable
\* latch 0), and the direction pin does not change from the first pulse to
\* the last.
C16_PinOrder ==
    [][ /\ (spc = "enable" /\ spc' # "enable") => (spc' = "dir" /\ motor_enable' = 0)
        /\ (spc = "dir" /\ spc' # "dir") => spc' = "high"
        /\ (spc = "disable" /\ spc' # "disable") => (spc' = "idle" /\ motor_enable' = 1)
        /\ (spc = "high" /\ spc' = "low") => (motor_enable = 0 /\ motor_step' = 1)
        /\ (spc \in { "high", "low" } /\ spc' \in { "high", "low" })
            => (motor_enable' = 0 /\ motor_dir' = motor_dir) ]_vars

\* C19: no actuation sequence is in progress before stepper_init() has
\* finished on the main thread, so the two never interleave.
C19_InitBeforeActuation ==
    spc # "idle" => mainpc = "loop"

(***************************************************************************)
(* Further properties of the identify mode                                 *)
(***************************************************************************)
\* Steps in which identify_cb is called with a non-zero / a zero argument, in
\* which toggle_identify_led runs, and in which start_identifying runs.
StartNotified == cb_calls' # cb_calls /\ notified' = "start"
CancelNotified == cb_calls' # cb_calls /\ notified' = "cancel"
ToggleRuns == blink_status' # blink_status
StartIdentifyingRuns == PendingStarts(cbq') < PendingStarts(cbq)

C12_SecondStartNoOp ==
    [][ (StartNotified /\ Chains > 0)
            => (led' = led /\ blink_status' = blink_status /\ Chains' = Chains) ]_vars

\* C13: a cancel notification while the session is inactive (the handler was
\* last told to cancel, or was never called) changes no session state and
\* produces no transition on the identify output.
C13_CancelInactiveNoOp ==
    [][ (CancelNotified /\ notified # "start")
            => /\ led' = led
               /\ blink_status' = blink_status
               /\ alarms' = alarms
               /\ cbq' = cbq ]_vars

\* C15: start_identifying run while the device is not joined only leaves
\* the callback queue: the identify time, the session, the identify output,
\* the on_off attribute and the motor pins are unchanged and identify_cb is
\* not called.
C15_NotJoinedSkipped ==
    [][ (StartIdentifyingRuns /\ ~joined)
            => /\ cbq' = Tail(cbq)
               /\ intent' = "skipped"
               /\ UNCHANGED << identify_time, led, blink_status, alarms, notified, cb_calls >>
               /\ UNCHANGED << on_off, motor_step, motor_dir, motor_enable, joined >> ]_vars

C15_Witness ==
    /\ intent = "skipped"
    /\ ~joined
    /\ identify_time = 1
    /\ alarms = 1
    /\ led = 1

\* C17: run while joined, start_identifying requests a start exactly when
\* identify_time is 0 (the stack then starts, or answers RET_INVALID_STATE
\* and nothing changes) and a cancel exactly when identify_time is not 0.
C17_IntentAlternates ==
    [][ (StartIdentifyingRuns /\ joined)
            => IF identify_time = 0
               THEN \/ intent' = "start" /\ StartNotified /\ identify_time' > 0
                    \/ /\ intent' = "invalid"
                       /\ UNCHANGED << identify_time, led, blink_status, alarms, notified,
                                       cb_calls >>
               ELSE intent' = "cancel" /\ CancelNotified /\ identify_time' = 0 ]_vars

C17_Witness ==
    /\ intent = "cancel"
    /\ notified = "cancel"
    /\ identify_time = 0
    /\ Chains = 0
    /\ blink_status = 1
    /\ joined

\* C18: the identify output level equals the blink phase in every reachable
\* state.
C18_OutputEqualsPhase ==
    led = blink_status

\* C20: at most one toggle chain is alive in every reachable state.
C20_AtMostOneChain ==
    Chains <= 1

====
